---- MODULE Spec2Model ----
\* State-machine model of the Go example programs of the repository: the tool
\* functions, callbacks and custom agents the examples define, and the client
\* loops that drive a runner turn by turn.  The agent runtime the examples
\* import (google.golang.org/adk: runner, session service, llmagent and the
\* workflow agents) is not source of this repository; wherever an example
\* consumes what the runtime produces (the events of r.Run, the arguments of a
\* tool call, the state a custom agent reads) the value is an input drawn
\* from a small set.
EXTENDS Integers, Sequences, FiniteSets, TLC

\* ---------------------------------------------------------------- bounds
\* events one r.Run stream delivers to runTurn's range loop
MaxEvents == 2
\* parts carried by one event's content
MaxParts == 2
\* values of user:login_count the session may hold (0..MaxLogin)
MaxLogin == 2
\* contents of one LLM request, and parts of one content of a request
MaxContents == 2
MaxReqParts == 1
\* events the iterative-writing pipeline delivers to its caller's range loop
MaxStream == 3
\* parts of one content of a request that carries function calls
MaxCallParts == 2
\* values of model_calls / user_action_count the session may hold (0..MaxCount)
MaxCount == 2
\* events one sub-agent stream delivers to StoryFlowAgent.Run
MaxSubEvents == 2
\* r.Run loops of the hand-off client
MaxRuns == 2
\* calls of updateUserPreference that may run at the same time
MaxCalls == 2

\* ---------------------------------------------------------------- strings
\* Go strings are modelled as sequences of one-character strings.
UpperChars == <<"A", "B", "C", "D", "E", "F", "G", "H", "I", "J", "K", "L", "M",
                "N", "O", "P", "Q", "R", "S", "T", "U", "V", "W", "X", "Y", "Z">>
LowerChars == <<"a", "b", "c", "d", "e", "f", "g", "h", "i", "j", "k", "l", "m",
                "n", "o", "p", "q", "r", "s", "t", "u", "v", "w", "x", "y", "z">>

\* strings.ToLower on one character
LowerChar(c) ==
    IF \E i \in 1..Len(UpperChars) : UpperChars[i] = c
    THEN LowerChars[CHOOSE i \in 1..Len(UpperChars) : UpperChars[i] = c]
    ELSE c

\* strings.ToLower
ToLower(s) == [i \in 1..Len(s) |-> LowerChar(s[i])]

\* strings.ToUpper on one character, and strings.ToUpper
UpperChar(c) ==
    IF \E i \in 1..Len(LowerChars) : LowerChars[i] = c
    THEN UpperChars[CHOOSE i \in 1..Len(LowerChars) : LowerChars[i] = c]
    ELSE c

ToUpper(s) == [i \in 1..Len(s) |-> UpperChar(s[i])]

\* strings.Contains(s, sub)
Contains(s, sub) ==
    \E k \in 0..(Len(s) - Len(sub)) :
        \A j \in 1..Len(sub) : s[k + j] = sub[j]

Urgent == <<"u", "r", "g", "e", "n", "t">>
Finance == <<"f", "i", "n", "a", "n", "c", "e">>

\* the queries the model (LLM) may pass to check_and_transfer
Queries ==
    { <<"u", "r", "g", "e", "n", "t">>,
      <<"U", "r", "G", "e", "N", "t", "!">>,
      <<"x", " ", "u", "r", "g", "e", "n", "t">>,
      <<"u", "r", "g", "e", "n">>,
      <<"t", "n", "e", "g", "r", "u">>,
      <<>> }

\* the texts a request part may carry
PartTexts ==
    { <<"f", "i", "n", "a", "n", "c", "e">>,
      <<"m", "y", " ", "f", "i", "n", "a", "n", "c", "e", "s">>,
      <<"F", "i", "n", "a", "n", "c", "e">>,
      <<"f", "i", "n", "a", "n", "c">>,
      <<"r", "o", "m", "e">>,
      <<>> }

\* ---------------------------------------------------------------- values
Unset == "<unset>"
Nil == "<nil>"
TicketTool == "create_ticket_long_running"
ToolNames == {TicketTool, "other_tool"}
CallIDs == {"", "fc-1", "fc-2"}

\* one part of an event's content: text, or a function call (name, id)
Parts == {[kind |-> "text", name |-> "", id |-> ""]}
         \cup {[kind |-> "call", name |-> n, id |-> i] : n \in ToolNames, i \in CallIDs}

PartSeqs == UNION {[1..n -> Parts] : n \in 0..MaxParts}

\* what one iteration of `for event, err := range r.Run(...)` receives
Events == {[err |-> TRUE, content |-> Nil, parts |-> <<>>],
           [err |-> FALSE, content |-> Nil, parts |-> <<>>]}
          \cup {[err |-> FALSE, content |-> "set", parts |-> p] : p \in PartSeqs}

NoActions == [Escalate |-> FALSE, TransferToAgent |-> ""]

\* a nil *model.LLMResponse, the zero tool result, and "no event yet"
NilResponse == [set |-> FALSE, Role |-> "", Text |-> ""]
NoResult == [Status |-> "", query |-> <<>>]
NoEvent == [Author |-> "", Actions |-> NoActions, StateDelta |-> <<>>]

\* a value stored in session state (Go `any`), tagged with its dynamic type;
\* Absent stands for a key State().Get reports an error for
IntVal(n) == [t |-> "int", i |-> n, s |-> ""]
StrVal(x) == [t |-> "string", i |-> 0, s |-> x]
BoolVal(b) == [t |-> "bool", i |-> (IF b THEN 1 ELSE 0), s |-> ""]
Absent == [t |-> "absent", i |-> 0, s |-> ""]

\* contents of a request: each content is a sequence of part texts
ReqContents == UNION {[1..n -> PartTexts] : n \in 0..MaxReqParts}
Requests == UNION {[1..n -> ReqContents] : n \in 0..MaxContents}

\* values the session may hold under "status" when Checker runs
StatusValues == {Absent, StrVal("pending"), StrVal("completed"), StrVal("active"),
                 StrVal(""), IntVal(1)}

\* values the session may hold under "user:login_count"
LoginValues == {Absent, StrVal("3")} \cup {IntVal(n) : n \in 0..MaxLogin}

\* readings of time.Now().Unix()
Timestamps == {1700000000, 1700000001}

\* what the caller of the iterative-writing pipeline receives per iteration
Authors == {"InitialWriterAgent", "CriticAgent", "RefinerAgent"}
PipelineEvents ==
    {[err |-> TRUE, content |-> Nil, Author |-> "", Escalate |-> FALSE]}
    \cup {[err |-> FALSE, content |-> c, Author |-> a, Escalate |-> e] :
              c \in {Nil, "set"}, a \in Authors, e \in BOOLEAN}

Programs == {"ticket", "support", "guardrail", "poller", "refine", "login", "writer",
             "artifacts", "safety", "capital", "skip", "profile", "preference",
             "counter", "action_count", "story", "stopchecker", "handoff",
             "callagent", "session", "remote", "instruction", "statecb", "workflow",
             "prefs"}

\* no instruction returned yet
NoInstruction == [text |-> "", err |-> ""]

\* keys of the mock session state of the safety example
StateKeys == {"query_tool_policy", "session_user_id"}

VARIABLES
    prog,         \* which example's main is running
    pc,           \* position in that main
    funcCallID,   \* main's funcCallID (long-running example)
    captured,     \* runTurn's local atomic.Value
    nEvents,      \* events the current runTurn loop has consumed
    willContinue, \* main's willContinue variable; both responses point at it
    responses,    \* function-response objects main has built (WillContinue is &willContinue)
    sentLog,      \* what each runTurn call was given, as valued at the call
    toolActions,  \* ctx.Actions() of the running tool call
    toolResult,   \* value the tool function returned
    lastEvent,    \* event a custom agent yielded / event built by the example
    cbResponse,   \* what a Before-Model callback returned (nil = proceed)
    loopIteration,\* runAgent's counter of CriticAgent events
    printed,      \* lines runAgent has printed, by kind
    state,        \* the mock session state of the safety example's main
    stateSets,    \* State().Set calls a tool or callback made that returned nil
    cbError,      \* error a tool or callback returned ("" = nil)
    artifactStore,\* file names saved through ctx.Artifacts()
    request,      \* the *model.LLMRequest the Before-Model callbacks share
    invoked,      \* callbacks invoked so far for the current model call
    toolArgs,     \* the args map handed to the tool callbacks (mutated in place)
    toolOut,      \* map (or content) a tool or callback returned (nil = proceed)
    subRuns,      \* sub-agent Run streams StoryFlowAgent.Run has ranged over, in order
    yielded,      \* what StoryFlowAgent.Run has passed to its consumer's yield
    currentStory, \* what StoryFlowAgent.Run read under "current_story"
    toneResult,   \* what StoryFlowAgent.Run read under "tone_check_result"
    transferTo,   \* the hand-off client's transferTo of the current r.Run loop
    currentAgent, \* the agent the hand-off client's runner is built on
    nRuns,        \* r.Run loops the hand-off client has started
    instruction,  \* what an InstructionProvider returned (text, error)
    flow,         \* where the Run of an example workflow is: stage, iteration, turns
    committed,    \* state keys the session of the example workflow holds
    turnLog,      \* agent turns started, each with the placeholder keys it lacks
    prefStore,    \* what the session state holds under "user:preferences"
    prefHeap,     \* the map[string]any objects allocated so far, by identity
    prefCalls     \* the calls of updateUserPreference: position, args, locals

vars == <<prog, pc, funcCallID, captured, nEvents, willContinue, responses,
          sentLog, toolActions, toolResult, lastEvent, cbResponse,
          loopIteration, printed, state, stateSets, cbError, artifactStore,
          request, invoked, toolArgs, toolOut, subRuns, yielded,
          currentStory, toneResult,
          transferTo, currentAgent, nRuns, instruction, flow, committed,
          turnLog, prefStore, prefHeap, prefCalls>>

\* the variables of the hand-off client and of the instruction providers
runVars == <<transferTo, currentAgent, nRuns, instruction>>

\* the variables of the example workflows and of the preference tool
exampleVars == <<flow, committed, turnLog, prefStore, prefHeap, prefCalls>>

\* the variables of the custom story-flow agent
storyVars == <<subRuns, yielded, currentStory, toneResult>>

\* the variables of the callback and context examples, and those of the
\* client-loop examples
hookVars == <<state, stateSets, cbError, artifactStore, request, invoked,
              toolArgs, toolOut>>
clientVars == <<funcCallID, captured, nEvents, willContinue, responses, sentLog,
                toolActions, toolResult, lastEvent, loopIteration, printed>>

\* ------------------------------------------------- long-running tool example
\* createTicketAsync: the tool's immediate (initial) result
createTicketAsync(urgency) == [Status |-> "started"]

\* runTurn's inner loop over the parts of one event
RECURSIVE CaptureParts(_, _)
CaptureParts(cap, parts) ==
    IF parts = <<>> THEN cap
    ELSE LET p == Head(parts)
             next == IF p.kind = "call" /\ p.name = TicketTool THEN p.id ELSE cap
         IN CaptureParts(next, Tail(parts))

\* runTurn's return value
TurnResult(cap) == IF cap = Unset THEN "" ELSE cap

\* a response object as the runtime would read it now: WillContinue is a
\* pointer to main's variable, so it is dereferenced at reading time
Deref(r) == [ID |-> r.ID, status |-> r.status, WillContinue |-> willContinue]

MainStart ==
    /\ prog = "ticket" /\ pc = "start"
    /\ pc' = "turn1"
    /\ sentLog' = Append(sentLog, [turn |-> 1, kind |-> "text", ID |-> "",
                                   WillContinue |-> FALSE, status |-> ""])
    /\ UNCHANGED <<exampleVars, runVars, storyVars, hookVars, prog, funcCallID, captured, nEvents, willContinue, responses,
                   toolActions, toolResult, lastEvent, cbResponse, loopIteration, printed>>

\* one iteration of runTurn's range loop
RunTurnEvent(ev) ==
    /\ prog = "ticket" /\ pc \in {"turn1", "turn2", "turn3"}
    /\ nEvents < MaxEvents
    /\ nEvents' = nEvents + 1
    /\ IF ev.err
       THEN UNCHANGED <<pc, captured>>
       ELSE IF ev.content = Nil
            THEN pc' = "panic" /\ UNCHANGED captured
            ELSE pc' = pc /\ captured' = CaptureParts(captured, ev.parts)
    /\ UNCHANGED <<exampleVars, runVars, storyVars, hookVars, prog, funcCallID, willContinue, responses, sentLog,
                   toolActions, toolResult, lastEvent, cbResponse, loopIteration, printed>>

\* the stream of turn 1 ends; main checks the captured ID and starts turn 2
Turn1Return ==
    /\ prog = "ticket" /\ pc = "turn1"
    /\ funcCallID' = TurnResult(captured)
    /\ captured' = Unset
    /\ nEvents' = 0
    /\ IF TurnResult(captured) = ""
       THEN /\ pc' = "fatal"
            /\ UNCHANGED <<willContinue, responses, sentLog>>
       ELSE /\ pc' = "turn2"
            /\ willContinue' = TRUE
            /\ responses' = Append(responses,
                   [ID |-> TurnResult(captured), status |-> "pending"])
            /\ sentLog' = Append(sentLog,
                   [turn |-> 2, kind |-> "response", ID |-> TurnResult(captured),
                    WillContinue |-> TRUE, status |-> "pending"])
    /\ UNCHANGED <<exampleVars, runVars, storyVars, hookVars, prog, toolActions, toolResult, lastEvent, cbResponse, loopIteration, printed>>

\* the stream of turn 2 ends (its result is dropped); main starts turn 3
Turn2Return ==
    /\ prog = "ticket" /\ pc = "turn2"
    /\ pc' = "turn3"
    /\ captured' = Unset
    /\ nEvents' = 0
    /\ willContinue' = FALSE
    /\ responses' = Append(responses, [ID |-> funcCallID, status |-> "approved"])
    /\ sentLog' = Append(sentLog,
           [turn |-> 3, kind |-> "response", ID |-> funcCallID,
            WillContinue |-> FALSE, status |-> "approved"])
    /\ UNCHANGED <<exampleVars, runVars, storyVars, hookVars, prog, funcCallID, toolActions, toolResult, lastEvent, cbResponse, loopIteration, printed>>

\* the stream of turn 3 ends; main prints the completion line
Turn3Return ==
    /\ prog = "ticket" /\ pc = "turn3"
    /\ pc' = "done"
    /\ captured' = Unset
    /\ nEvents' = 0
    /\ UNCHANGED <<exampleVars, runVars, storyVars, hookVars, prog, funcCallID, willContinue, responses, sentLog,
                   toolActions, toolResult, lastEvent, cbResponse, loopIteration, printed>>

\* ------------------------------------------------- customer support example
\* checkAndTransfer(ctx, args): the tool sets TransferToAgent on its actions
\* when the lower-cased query contains "urgent"
checkAndTransferActions(acts, query) ==
    IF Contains(ToLower(query), Urgent)
    THEN [acts EXCEPT !.TransferToAgent = "support_agent"]
    ELSE acts

checkAndTransferStatus(query) ==
    IF Contains(ToLower(query), Urgent)
    THEN "Transferring to the support agent..."
    ELSE "Processed query. No further action needed."

CheckAndTransfer(query) ==
    /\ prog = "support" /\ pc = "start"
    /\ toolActions' = checkAndTransferActions(toolActions, query)
    /\ toolResult' = [Status |-> checkAndTransferStatus(query), query |-> query]
    /\ pc' = "done"
    /\ UNCHANGED <<exampleVars, runVars, storyVars, hookVars, prog, funcCallID, captured, nEvents, willContinue, responses,
                   sentLog, lastEvent, cbResponse, loopIteration, printed>>

\* ------------------------------------------------- loop examples
\* ExitLoop(ctx, input): the tool raises Escalate on its actions
ExitLoopActions(acts) == [acts EXCEPT !.Escalate = TRUE]

ExitLoop ==
    /\ prog = "refine" /\ pc = "start"
    /\ toolActions' = ExitLoopActions(toolActions)
    /\ toolResult' = NoResult
    /\ pc' = "done"
    /\ UNCHANGED <<exampleVars, runVars, storyVars, hookVars, prog, funcCallID, captured, nEvents, willContinue, responses,
                   sentLog, lastEvent, cbResponse, loopIteration, printed>>

\* the Checker custom agent: a failed lookup of "status" defaults to "pending",
\* and the single event it yields escalates exactly when status is "completed"
CheckerStatus(got) == IF got = Absent THEN StrVal("pending") ELSE got

CheckerEvent(got) ==
    [Author |-> "Checker",
     Actions |-> [NoActions EXCEPT !.Escalate = (CheckerStatus(got) = StrVal("completed"))],
     StateDelta |-> <<>>]

CheckerRun(got) ==
    /\ prog = "poller" /\ pc = "start"
    /\ lastEvent' = CheckerEvent(got)
    /\ pc' = "done"
    /\ UNCHANGED <<exampleVars, runVars, storyVars, hookVars, prog, funcCallID, captured, nEvents, willContinue, responses,
                   sentLog, toolActions, toolResult, cbResponse, loopIteration, printed>>

\* ------------------------------------------------- Before-Model guardrail
BlockedResponse ==
    [set |-> TRUE, Role |-> "model",
     Text |-> "I'm sorry, but I cannot discuss financial topics."]

\* the callback's scan of one content's parts, then of the remaining contents
RECURSIVE ScanParts(_)
ScanParts(parts) ==
    IF parts = <<>> THEN FALSE
    ELSE IF Contains(Head(parts), Finance) THEN TRUE
    ELSE ScanParts(Tail(parts))

RECURSIVE onBeforeModelGuardrail(_)
onBeforeModelGuardrail(contents) ==
    IF contents = <<>> THEN NilResponse
    ELSE IF ScanParts(Head(contents)) THEN BlockedResponse
    ELSE onBeforeModelGuardrail(Tail(contents))

GuardrailCall(req) ==
    /\ prog = "guardrail" /\ pc = "start"
    /\ cbResponse' = onBeforeModelGuardrail(req)
    /\ pc' = IF onBeforeModelGuardrail(req).set THEN "blocked" ELSE "proceed"
    /\ UNCHANGED <<exampleVars, runVars, storyVars, hookVars, prog, funcCallID, captured, nEvents, willContinue, responses,
                   sentLog, toolActions, toolResult, lastEvent, loopIteration, printed>>

\* ------------------------------------------------- manual state update
\* manualStateUpdateExample: the login counter restarts at 1 unless the stored
\* value is an int
NewLoginCount(stored) == IF stored.t = "int" THEN stored.i + 1 ELSE 1

StateChanges(stored, now) ==
    << [key |-> "task_status", val |-> StrVal("active")],
       [key |-> "user:login_count", val |-> IntVal(NewLoginCount(stored))],
       [key |-> "user:last_login_ts", val |-> IntVal(now)],
       [key |-> "temp:validation_needed", val |-> BoolVal(TRUE)] >>

\* the system event handed to sessionService.AppendEvent
BuildSystemEvent(stored, now) ==
    /\ prog = "login" /\ pc = "start"
    /\ lastEvent' = [Author |-> "system", Actions |-> NoActions,
                     StateDelta |-> StateChanges(stored, now)]
    /\ pc' = "appended"
    /\ UNCHANGED <<exampleVars, runVars, storyVars, hookVars, prog, funcCallID, captured, nEvents, willContinue, responses,
                   sentLog, toolActions, toolResult, cbResponse, loopIteration, printed>>

\* ------------------------------------------------- iterative writing pipeline
\* runAgent's range loop over r.Run: it counts an iteration per CriticAgent
\* event, prints a refinement only when the event does not escalate, and
\* reports every escalating event; it keeps reading after an escalation
PrintedFor(ev, n) ==
    (IF ev.Author = "InitialWriterAgent" THEN <<[kind |-> "draft", iter |-> n]>>
     ELSE IF ev.Author = "CriticAgent" THEN <<[kind |-> "critique", iter |-> n + 1]>>
     ELSE IF ev.Author = "RefinerAgent" /\ ~ev.Escalate
          THEN <<[kind |-> "refinement", iter |-> n]>>
     ELSE <<>>)
    \o (IF ev.Escalate THEN <<[kind |-> "terminated", iter |-> n]>> ELSE <<>>)

PipelineEvent(ev) ==
    /\ prog = "writer" /\ pc \in {"start", "reading"}
    /\ nEvents < MaxStream
    /\ nEvents' = nEvents + 1
    /\ IF ev.err
       THEN pc' = "error" /\ UNCHANGED <<loopIteration, printed>>
       ELSE IF ev.content = Nil
            THEN pc' = "panic" /\ UNCHANGED <<loopIteration, printed>>
            ELSE /\ pc' = "reading"
                 /\ loopIteration' = IF ev.Author = "CriticAgent"
                                     THEN loopIteration + 1 ELSE loopIteration
                 /\ printed' = printed \o PrintedFor(ev, loopIteration)
    /\ UNCHANGED <<exampleVars, runVars, storyVars, hookVars, prog, funcCallID, captured, willContinue, responses, sentLog,
                   toolActions, toolResult, lastEvent, cbResponse>>

\* the stream ends: runAgent prints the closing line and returns nil
PipelineFinished ==
    /\ prog = "writer" /\ pc \in {"start", "reading"}
    /\ pc' = "done"
    /\ printed' = Append(printed, [kind |-> "finished", iter |-> loopIteration])
    /\ UNCHANGED <<exampleVars, runVars, storyVars, hookVars, prog, funcCallID, captured, nEvents, willContinue, responses,
                   sentLog, toolActions, toolResult, lastEvent, cbResponse,
                   loopIteration>>

\* ------------------------------------------------- values of the callback examples
\* a []byte held in session state
BytesVal == [t |-> "bytes", i |-> 0, s |-> ""]

\* a Go map[string]any (or a returned content) as a set of
\* <<key, dynamic type, value>> entries; NilMap is the nil map / nil content
NilMap == [set |-> FALSE, m |-> {}]
MapOf(m) == [set |-> TRUE, m |-> m]

\* the args map of a tool call, reduced to its "country" entry: ok tells
\* whether args["country"] holds a string, chars is that string
NoArgs == [ok |-> FALSE, chars |-> <<>>]
CountryArg(c) == [ok |-> TRUE, chars |-> c]

\* the elements of a sequence
Range(f) == {f[i] : i \in DOMAIN f}

\* ------------------------------------------------- artifact callbacks
\* the Before-Model callbacks the reporting agent registers, in the order of
\* the BeforeModel slice
BeforeModelCallbacks ==
    <<"saveReportCallback", "listUserFilesCallback", "loadArtifactsCallback">>

ReportFile == "generated_report.pdf"

\* requests the runtime may hand to the callbacks: a request is a sequence of
\* contents, a content a sequence of parts, a part's text a sequence of
\* fragments (so that prepending text is concatenation)
ArtifactRequests ==
    { <<>>,
      << <<>> >>,
      << << <<"user">> >> >>,
      << << <<"old">> >>, << <<"user">>, <<"more">> >> >> }

\* values the session may hold under "report_bytes"
ReportValues == {Absent, BytesVal, StrVal("report")}

\* outcomes of ctx.Artifacts().List(): an error, no file, some files
ListOutcomes == {"error", "none", "some"}

\* saveReportCallback: the file is saved when the state holds a []byte and
\* Save returns nil
saveReportStore(store, got, saveOk) ==
    IF got.t = "bytes" /\ saveOk THEN store \cup {ReportFile} ELSE store

\* listUserFilesCallback: the file list is put in front of the text of the
\* first part of the last content, if there is one
listUserFilesRequest(req, listed) ==
    IF listed = "some" /\ Len(req) > 0 /\ Len(req[Len(req)]) > 0
    THEN [req EXCEPT ![Len(req)][1] = <<"filelist">> \o @]
    ELSE req

\* loadArtifactsCallback: the loaded part is appended to the last content; an
\* empty request first gets a content with one system part
loadArtifactsRequest(req, loadOk) ==
    IF ~loadOk THEN req
    ELSE LET r == IF Len(req) = 0 THEN << << <<"system">> >> >> ELSE req
         IN [r EXCEPT ![Len(r)] = Append(@, <<"artifact">>)]

\* the runtime reaches the Before-Model hook point with a request
ArtifactsModelCall(req) ==
    /\ prog = "artifacts" /\ pc = "start"
    /\ pc' = "callbacks"
    /\ request' = req
    /\ invoked' = <<>>
    /\ UNCHANGED <<exampleVars, runVars, storyVars, clientVars, prog, cbResponse, state, stateSets, cbError,
                   artifactStore, toolArgs, toolOut>>

\* each registered callback returns (nil, nil) on every path
SaveReportCallback(got, saveOk) ==
    /\ prog = "artifacts" /\ pc = "callbacks"
    /\ "saveReportCallback" \in Range(BeforeModelCallbacks) \ Range(invoked)
    /\ invoked' = Append(invoked, "saveReportCallback")
    /\ artifactStore' = saveReportStore(artifactStore, got, saveOk)
    /\ cbResponse' = NilResponse
    /\ cbError' = ""
    /\ UNCHANGED <<exampleVars, runVars, storyVars, clientVars, prog, pc, state, stateSets, request, toolArgs, toolOut>>

ListUserFilesCallback(listed) ==
    /\ prog = "artifacts" /\ pc = "callbacks"
    /\ "listUserFilesCallback" \in Range(BeforeModelCallbacks) \ Range(invoked)
    /\ invoked' = Append(invoked, "listUserFilesCallback")
    /\ request' = listUserFilesRequest(request, listed)
    /\ cbResponse' = NilResponse
    /\ cbError' = ""
    /\ UNCHANGED <<exampleVars, runVars, storyVars, clientVars, prog, pc, state, stateSets, artifactStore,
                   toolArgs, toolOut>>

LoadArtifactsCallback(loadOk) ==
    /\ prog = "artifacts" /\ pc = "callbacks"
    /\ "loadArtifactsCallback" \in Range(BeforeModelCallbacks) \ Range(invoked)
    /\ invoked' = Append(invoked, "loadArtifactsCallback")
    /\ request' = loadArtifactsRequest(request, loadOk)
    /\ cbResponse' = NilResponse
    /\ cbError' = ""
    /\ UNCHANGED <<exampleVars, runVars, storyVars, clientVars, prog, pc, state, stateSets, artifactStore,
                   toolArgs, toolOut>>

\* ------------------------------------------------- safety example
\* conceptualSetup: the two entries it puts in the (mock) session state
PolicyVal == [t |-> "policy", i |-> 0, s |-> ""]

conceptualSetupState(st) ==
    [st EXCEPT !["query_tool_policy"] = PolicyVal,
               !["session_user_id"] = StrVal("user123")]

ConceptualSetup ==
    /\ prog = "safety" /\ pc = "start"
    /\ state' = conceptualSetupState(state)
    /\ pc' = "setup"
    /\ UNCHANGED <<exampleVars, runVars, storyVars, clientVars, prog, cbResponse, stateSets, cbError, artifactStore,
                   request, invoked, toolArgs, toolOut>>

\* a part of a request content: a text part, or a function call with its
\* name and the value of Args["user_id_param"]
UserIDArgs == {Absent, StrVal("user123"), StrVal("user456"), IntVal(123)}
CallParts ==
    {[call |-> FALSE, name |-> "", arg |-> Absent]}
    \cup {[call |-> TRUE, name |-> "other_tool", arg |-> StrVal("user456")]}
    \cup {[call |-> TRUE, name |-> "database_query", arg |-> a] : a \in UserIDArgs}
CallContents == UNION {[1..n -> CallParts] : n \in 0..MaxCallParts}
CallRequests ==
    {<<>>} \cup {<<c>> : c \in CallContents}
    \cup {<<c, d>> : c, d \in {x \in CallContents : Len(x) <= 1}}

\* fc.Args["user_id_param"].(string) with the ok result dropped
ArgString(a) == IF a.t = "string" THEN a.s ELSE ""

MismatchResponse ==
    [set |-> TRUE, Role |-> "model",
     Text |-> "Tool call blocked by security callback: User ID mismatch."]
UserIDError == "internal error: session_user_id not found in state"

\* validateToolParams over the parts of one content, then over the remaining
\* contents: the result is "proceed", "error" or "blocked"
RECURSIVE validateParts(_, _)
validateParts(parts, expected) ==
    IF parts = <<>> THEN "proceed"
    ELSE LET p == Head(parts)
         IN IF ~p.call \/ p.name # "database_query"
            THEN validateParts(Tail(parts), expected)
            ELSE IF expected.t = "absent" THEN "error"
            ELSE IF ~(expected.t = "string" /\ expected.s = ArgString(p.arg))
                 THEN "blocked"
            ELSE validateParts(Tail(parts), expected)

RECURSIVE validateToolParams(_, _)
validateToolParams(contents, expected) ==
    IF contents = <<>> THEN "proceed"
    ELSE LET r == validateParts(Head(contents), expected)
         IN IF r # "proceed" THEN r
            ELSE validateToolParams(Tail(contents), expected)

\* one call of the callback against the session state as it is: before
\* conceptualSetup the key is missing and State().Get reports an error
ValidateToolParams(req) ==
    /\ prog = "safety" /\ pc \in {"start", "setup"}
    /\ LET r == validateToolParams(req, state["session_user_id"])
       IN /\ pc' = r
          /\ cbResponse' = IF r = "blocked" THEN MismatchResponse ELSE NilResponse
          /\ cbError' = IF r = "error" THEN UserIDError ELSE ""
    /\ UNCHANGED <<exampleVars, runVars, storyVars, clientVars, prog, state, stateSets, artifactStore, request,
                   invoked, toolArgs, toolOut>>

\* ------------------------------------------------- capital city tool and its callbacks
CapitalTool == "getCapitalCity"
CalledTools == {CapitalTool, "other_tool"}

\* the countries a tool call may name
Countries ==
    { <<"C", "a", "n", "a", "d", "a">>,
      <<"c", "a", "n", "a", "d", "a">>,
      <<"C", "A", "N", "A", "D", "A">>,
      <<"F", "r", "a", "n", "c", "e">>,
      <<"B", "L", "O", "C", "K">>,
      <<"B", "l", "o", "c", "k">>,
      <<"b", "l", "o", "c", "k">>,
      <<"u", "n", "i", "t", "e", "d", " ", "s", "t", "a", "t", "e", "s">>,
      <<"U", "n", "i", "t", "e", "d", " ", "S", "t", "a", "t", "e", "s">>,
      <<"g", "e", "r", "m", "a", "n", "y">>,
      <<"M", "a", "r", "s">>,
      <<>> }

Canada == <<"c", "a", "n", "a", "d", "a">>
France == <<"f", "r", "a", "n", "c", "e">>
Germany == <<"g", "e", "r", "m", "a", "n", "y">>
UnitedStates == <<"u", "n", "i", "t", "e", "d", " ", "s", "t", "a", "t", "e", "s">>
Block == <<"B", "L", "O", "C", "K">>

Washington == "Washington, D.C."
WashingtonNote == "Washington, D.C. (Note: This is the capital of the USA)."
BlockedByCallback == "Tool execution was blocked by before_tool_callback."

\* getCapitalCity: a lookup of the lower-cased country in the capitals map
getCapitalCity(country) ==
    LET k == ToLower(country)
    IN IF k = Canada THEN "Ottawa"
       ELSE IF k = France THEN "Paris"
       ELSE IF k = Germany THEN "Berlin"
       ELSE IF k = UnitedStates THEN Washington
       ELSE "<Unknown>"

GetCapitalCity(country) ==
    /\ prog = "capital" /\ pc = "start"
    /\ toolResult' = [Status |-> getCapitalCity(country), query |-> country]
    /\ pc' = "tool_done"
    /\ UNCHANGED <<exampleVars, runVars, storyVars, hookVars, prog, funcCallID, captured, nEvents, willContinue,
                   responses, sentLog, toolActions, lastEvent, cbResponse,
                   loopIteration, printed>>

\* onBeforeTool: for "canada" the country of the args map is overwritten in
\* place and the args map itself is returned; for "BLOCK" a result map is
\* returned; otherwise nil
onBeforeToolArgs(name, args) ==
    IF name = CapitalTool /\ args.ok /\ ToLower(args.chars) = Canada
    THEN CountryArg(<<"F", "r", "a", "n", "c", "e">>)
    ELSE args

onBeforeToolResult(name, args) ==
    IF name = CapitalTool /\ args.ok
    THEN IF ToLower(args.chars) = Canada
         THEN MapOf({<<"country", "string", "France">>})
         ELSE IF ToUpper(args.chars) = Block
              THEN MapOf({<<"result", "string", BlockedByCallback>>})
              ELSE NilMap
    ELSE NilMap

OnBeforeTool(name, args) ==
    /\ prog = "capital" /\ pc = "start"
    /\ toolArgs' = onBeforeToolArgs(name, args)
    /\ toolOut' = onBeforeToolResult(name, args)
    /\ cbError' = ""
    /\ pc' = "before_done"
    /\ UNCHANGED <<exampleVars, runVars, storyVars, clientVars, prog, cbResponse, state, stateSets, artifactStore,
                   request, invoked>>

\* results and errors the runtime may hand to the After-Tool callback
ToolResults ==
    { {},
      {<<"result", "string", "Ottawa">>},
      {<<"result", "string", Washington>>},
      {<<"result", "string", Washington>>, <<"source", "string", "atlas">>},
      {<<"result", "string", Washington>>, <<"note_added_by_callback", "bool", "false">>},
      {<<"result", "int", "7">>},
      {<<"capital", "string", Washington>>} }
ToolErrors == {"", "tool failed"}

\* onAfterTool: an error is passed through; a "Washington, D.C." result of
\* getCapitalCity is copied, rewritten and annotated; otherwise nil
onAfterToolResult(name, result, err) ==
    IF err # "" THEN NilMap
    ELSE IF name = CapitalTool /\ <<"result", "string", Washington>> \in result
         THEN MapOf({e \in result : e[1] \notin {"result", "note_added_by_callback"}}
                    \cup {<<"result", "string", WashingtonNote>>,
                          <<"note_added_by_callback", "bool", "true">>})
         ELSE NilMap

OnAfterTool(name, result, err) ==
    /\ prog = "capital" /\ pc = "start"
    /\ toolOut' = onAfterToolResult(name, result, err)
    /\ cbError' = err
    /\ pc' = "after_done"
    /\ UNCHANGED <<exampleVars, runVars, storyVars, clientVars, prog, cbResponse, state, stateSets, artifactStore,
                   request, invoked, toolArgs>>

\* ------------------------------------------------- Before-Agent callback
\* values the session may hold under "skip_llm_agent"
SkipValues == {Absent, BoolVal(TRUE), BoolVal(FALSE), StrVal("true"), IntVal(1)}
AgentNames == {"AgentWithBeforeAgentCallback", "other_agent"}

\* fmt.Sprintf("Agent %s skipped by before_agent_callback.", agentName)
SkippedText(name) ==
    IF name = "AgentWithBeforeAgentCallback"
    THEN "Agent AgentWithBeforeAgentCallback skipped by before_agent_callback."
    ELSE "Agent other_agent skipped by before_agent_callback."

\* onBeforeAgent: replacement content exactly when the stored value is the
\* bool true (a failed Get leaves skip nil)
onBeforeAgent(name, got) ==
    IF got = BoolVal(TRUE)
    THEN [set |-> TRUE, Role |-> "model", Text |-> SkippedText(name)]
    ELSE NilResponse

OnBeforeAgent(name, got) ==
    /\ prog = "skip" /\ pc = "start"
    /\ cbResponse' = onBeforeAgent(name, got)
    /\ cbError' = ""
    /\ pc' = IF onBeforeAgent(name, got).set THEN "skipped" ELSE "proceed"
    /\ UNCHANGED <<exampleVars, runVars, storyVars, clientVars, prog, state, stateSets, artifactStore, request,
                   invoked, toolArgs, toolOut>>

\* ------------------------------------------------- long-running tool registration
\* createTicketAgent: the fields of functiontool.Config the example sets
TicketToolConfig ==
    [Name |-> TicketTool,
     Description |-> "Creates a new support ticket with a specified urgency level."]

\* ------------------------------------------------- passing data between tools
UserIDKey == "temp:current_user_id"
UserIDValues == {Absent, StrVal("user-12345"), StrVal("someone-else"), IntVal(5)}
SetError == "state set failed"

\* getUserProfile: Set(temp:current_user_id, "user-12345"); a failed Set is
\* returned as the tool's error
GetUserProfile(setOk) ==
    /\ prog = "profile" /\ pc = "start"
    /\ IF setOk
       THEN /\ stateSets' = Append(stateSets, [key |-> UserIDKey, val |-> StrVal("user-12345")])
            /\ toolOut' = MapOf({<<"profile_status", "string", "ID generated">>})
            /\ cbError' = ""
            /\ pc' = "profiled"
       ELSE /\ UNCHANGED stateSets
            /\ toolOut' = NilMap
            /\ cbError' = SetError
            /\ pc' = "error"
    /\ UNCHANGED <<exampleVars, runVars, storyVars, clientVars, prog, cbResponse, state, artifactStore, request,
                   invoked, toolArgs>>

\* getUserOrders: the result depends only on whether Get reports an error
getUserOrders(got) ==
    IF got = Absent
    THEN MapOf({<<"error", "string", "User ID not found in state">>})
    ELSE MapOf({<<"orders", "[]string", "order123,order456">>})

GetUserOrders(got) ==
    /\ prog = "profile" /\ pc \in {"start", "profiled"}
    /\ toolOut' = getUserOrders(got)
    /\ cbError' = ""
    /\ pc' = "ordered"
    /\ UNCHANGED <<exampleVars, runVars, storyVars, clientVars, prog, cbResponse, state, stateSets, artifactStore,
                   request, invoked, toolArgs>>

\* ------------------------------------------------- story agents' output keys
\* the OutputKey each LLM agent of the story flow is configured with
StoryOutputKey ==
    [StoryGenerator |-> "current_story", Critic |-> "criticism",
     Reviser |-> "current_story", GrammarCheck |-> "grammar_suggestions",
     ToneCheck |-> "tone_check_result"]

\* ------------------------------------------------- user preference tool
Preferences ==
    { <<"t", "h", "e", "m", "e">>,
      <<"l", "a", "n", "g">>,
      <<>>,
      <<"u", "s", "e", "r", ":", "t", "h", "e", "m", "e">>,
      <<"t", "e", "m", "p", ":", "x">> }
PreferenceValues == {"dark", "light", ""}

\* fmt.Sprintf("user:%s", args.Preference)
PreferenceKey(pref) == <<"u", "s", "e", "r", ":">> \o pref

SetUserPreference(pref, value, setOk) ==
    /\ prog = "preference" /\ pc = "start"
    /\ IF setOk
       THEN /\ stateSets' = Append(stateSets, [key |-> PreferenceKey(pref), val |-> StrVal(value)])
            /\ toolOut' = MapOf({<<"status", "string", "Preference updated">>})
            /\ cbError' = ""
            /\ pc' = "updated"
       ELSE /\ UNCHANGED stateSets
            /\ toolOut' = NilMap
            /\ cbError' = SetError
            /\ pc' = "error"
    /\ UNCHANGED <<exampleVars, runVars, storyVars, clientVars, prog, cbResponse, state, artifactStore, request,
                   invoked, toolArgs>>

\* ------------------------------------------------- state written through a context
\* values the session may hold under "model_calls" / "user_action_count"
CountValues == {Absent, StrVal("3"), BoolVal(TRUE)} \cup {IntVal(n) : n \in 0..MaxCount}

\* myBeforeModelCb: a failed Get counts as 0; callCount.(int) panics on any
\* other stored type; a failed Set is returned as the callback's error
MyBeforeModelCb(got, setOk) ==
    /\ prog = "counter" /\ pc = "start"
    /\ cbResponse' = NilResponse
    /\ IF got.t \notin {"absent", "int"}
       THEN pc' = "panic" /\ UNCHANGED <<stateSets, cbError>>
       ELSE LET newCount == (IF got.t = "absent" THEN 0 ELSE got.i) + 1
            IN IF setOk
               THEN /\ stateSets' = Append(stateSets,
                            [key |-> "model_calls", val |-> IntVal(newCount)])
                    /\ cbError' = ""
                    /\ pc' = "proceed"
               ELSE /\ UNCHANGED stateSets
                    /\ cbError' = SetError
                    /\ pc' = "error"
    /\ UNCHANGED <<exampleVars, runVars, storyVars, clientVars, prog, state, artifactStore, request, invoked,
                   toolArgs, toolOut>>

\* the update_action_count tool: the count restarts at 1 unless the stored
\* value is an int; failed Sets are only logged
newActionCount(got) == IF got.t = "int" THEN got.i + 1 ELSE 1

actionCountSets(got, ok1, ok2) ==
    (IF ok1 THEN <<[key |-> "user_action_count", val |-> IntVal(newActionCount(got))]>>
     ELSE <<>>)
    \o (IF ok2 THEN <<[key |-> "temp:last_operation_status",
                       val |-> StrVal("success from tool")]>>
        ELSE <<>>)

UpdateActionCount(isCallbackContext, got, ok1, ok2) ==
    /\ prog = "action_count" /\ pc = "start"
    /\ IF ~isCallbackContext
       THEN pc' = "fatal" /\ UNCHANGED <<stateSets, toolOut>>
       ELSE /\ stateSets' = stateSets \o actionCountSets(got, ok1, ok2)
            /\ toolOut' = MapOf({})
            /\ pc' = "done"
    /\ UNCHANGED <<exampleVars, runVars, storyVars, clientVars, prog, cbResponse, state, cbError, artifactStore,
                   request, invoked, toolArgs>>

\* ------------------------------------------------- custom story-flow agent
\* a wrong order of the stages: the loop and the post-processing swapped
StageAgentSwapped ==
    <<"storyGenerator", "postProcessorAgent", "revisionLoopAgent", "storyGenerator">>

\* every error wrapped as a failure of the story generator
StageErrorUniform ==
    <<"story generator failed", "story generator failed", "story generator failed",
      "story generator failed">>

\* StoryFlowAgent.Run ranges over four sub-agent streams: the fields it calls
\* Run on, in the order of its stages, and how it wraps an error of each
StageAgent ==
    <<"storyGenerator", "revisionLoopAgent", "postProcessorAgent", "storyGenerator">>
StageError ==
    <<"story generator failed", "loop agent failed", "sequential agent failed",
      "story regeneration failed">>
StagePc == <<"stage1", "stage2", "stage3", "stage4">>

\* the stage whose loop the Run is in
StageOf(p) == CHOOSE k \in 1..Len(StagePc) : StagePc[k] = p

\* values the session may hold under "current_story" and "tone_check_result"
StoryValues == {Absent, StrVal(""), StrVal("a story"), IntVal(0)}
ToneValues == {Absent, StrVal("negative"), StrVal("positive"), StrVal("Negative"),
               BoolVal(TRUE)}

\* events of stage k passed to yield so far
Forwarded(k) == Cardinality({i \in 1..Len(yielded) : yielded[i].stage = k})

\* s.<agent>.Run(ctx) is called and its stream ranged over
OpenRun(runs, k) ==
    Append(runs, [agent |-> StageAgent[k], stage |-> k, status |-> "open"])

\* the range loop over the current stream is left: "ended" when the stream
\* is exhausted, "abandoned" when the loop body returns
CloseRun(runs, status) == [runs EXCEPT ![Len(runs)].status = status]

\* a check that lets an empty story through
NoStoryOnlyOnError(got) == got.t = "absent"

\* currentStory == "" : true only for a string value that is empty
NoStory(got) == got.t = "absent" \/ got = StrVal("")

\* a check that regenerates for every tone that is a string
IsAnyString(tone) == tone.t = "string"

\* tone, ok := toneResult.(string); ok && tone == "negative"
IsNegative(tone) == tone = StrVal("negative")

\* the consumer starts ranging over StoryFlowAgent.Run: stage 1 begins
StoryRun ==
    /\ prog = "story" /\ pc = "start"
    /\ pc' = "stage1"
    /\ subRuns' = OpenRun(subRuns, 1)
    /\ UNCHANGED <<exampleVars, runVars, yielded, hookVars, clientVars, prog, cbResponse,
                   currentStory, toneResult>>

\* a loop body that ignores what the consumer's yield answers
SubAgentYieldIgnoringStop(err, more) ==
    /\ prog = "story" /\ pc \in Range(StagePc)
    /\ Forwarded(StageOf(pc)) < MaxSubEvents
    /\ LET k == StageOf(pc)
       IN IF err
          THEN /\ yielded' = Append(yielded, [stage |-> k, kind |-> "error",
                                              text |-> StageError[k], more |-> more])
               /\ pc' = "error"
               /\ subRuns' = CloseRun(subRuns, "abandoned")
          ELSE /\ yielded' = Append(yielded, [stage |-> k, kind |-> "event",
                                              text |-> "", more |-> more])
               /\ UNCHANGED <<pc, subRuns>>
    /\ UNCHANGED <<exampleVars, runVars, hookVars, clientVars, prog, cbResponse, currentStory,
                   toneResult>>

\* one iteration of the current stage's range loop: the sub-agent delivers
\* (event, err); an error is wrapped, yielded and the Run returns; an event is
\* yielded and the Run returns if the consumer's yield answers false
SubAgentYield(err, more) ==
    /\ prog = "story" /\ pc \in Range(StagePc)
    /\ Forwarded(StageOf(pc)) < MaxSubEvents
    /\ LET k == StageOf(pc)
       IN IF err
          THEN /\ yielded' = Append(yielded, [stage |-> k, kind |-> "error",
                                              text |-> StageError[k], more |-> more])
               /\ pc' = "error"
               /\ subRuns' = CloseRun(subRuns, "abandoned")
          ELSE /\ yielded' = Append(yielded, [stage |-> k, kind |-> "event",
                                              text |-> "", more |-> more])
               /\ IF more
                  THEN UNCHANGED <<pc, subRuns>>
                  ELSE /\ pc' = "stopped"
                       /\ subRuns' = CloseRun(subRuns, "abandoned")
    /\ UNCHANGED <<exampleVars, runVars, hookVars, clientVars, prog, cbResponse, currentStory,
                   toneResult>>

\* the stream of stage 1 is exhausted: without a story the Run returns,
\* yielding nothing; otherwise stage 2 begins
Stage1End(got) ==
    /\ prog = "story" /\ pc = "stage1"
    /\ IF NoStory(got)
       THEN /\ pc' = "no_story"
            /\ subRuns' = CloseRun(subRuns, "ended")
       ELSE /\ pc' = "stage2"
            /\ subRuns' = OpenRun(CloseRun(subRuns, "ended"), 2)
    /\ currentStory' = got
    /\ UNCHANGED <<exampleVars, runVars, yielded, hookVars, clientVars, prog, cbResponse, toneResult>>

\* the stream of stage 2 is exhausted: stage 3 begins
Stage2End ==
    /\ prog = "story" /\ pc = "stage2"
    /\ pc' = "stage3"
    /\ subRuns' = OpenRun(CloseRun(subRuns, "ended"), 3)
    /\ UNCHANGED <<exampleVars, runVars, yielded, hookVars, clientVars, prog, cbResponse,
                   currentStory, toneResult>>

\* the stream of stage 3 is exhausted: the tone is read; the story generator
\* runs again only for the string "negative"
Stage3End(tone) ==
    /\ prog = "story" /\ pc = "stage3"
    /\ IF tone.t = "absent"
       THEN /\ pc' = "no_tone"
            /\ subRuns' = CloseRun(subRuns, "ended")
       ELSE IF IsNegative(tone)
            THEN /\ pc' = "stage4"
                 /\ subRuns' = OpenRun(CloseRun(subRuns, "ended"), 4)
            ELSE /\ pc' = "done"
                 /\ subRuns' = CloseRun(subRuns, "ended")
    /\ toneResult' = tone
    /\ UNCHANGED <<exampleVars, runVars, yielded, hookVars, clientVars, prog, cbResponse,
                   currentStory>>

\* the stream of the regeneration is exhausted: the Run returns
Stage4End ==
    /\ prog = "story" /\ pc = "stage4"
    /\ pc' = "done"
    /\ subRuns' = CloseRun(subRuns, "ended")
    /\ UNCHANGED <<exampleVars, runVars, yielded, hookVars, clientVars, prog, cbResponse,
                   currentStory, toneResult>>

\* ------------------------------------------------- StopChecker of the refinement loop
\* values the session may hold under "quality_status"
QualityValues == {Absent, StrVal("pass"), StrVal("fail"), StrVal("Pass"), BoolVal(TRUE)}

\* the children of CodeRefinementLoop, in the order of SubAgents
RefinementLoopAgents == <<"CodeRefiner", "QualityChecker", "StopChecker">>

\* the single event StopChecker yields: it escalates exactly when the stored
\* status is the string "pass" (a failed Get leaves status nil)
StopCheckerEvent(got) ==
    [Author |-> "StopChecker",
     Actions |-> [NoActions EXCEPT !.Escalate = (got = StrVal("pass"))],
     StateDelta |-> <<>>]

StopCheckerRun(got) ==
    /\ prog = "stopchecker" /\ pc = "start"
    /\ lastEvent' = StopCheckerEvent(got)
    /\ pc' = "done"
    /\ UNCHANGED <<exampleVars, runVars, storyVars, hookVars, prog, funcCallID, captured, nEvents,
                   willContinue, responses, sentLog, toolActions, toolResult,
                   cbResponse, loopIteration, printed>>

\* ------------------------------------------------- hand-off client
\* main_agent is built with Tools only and support_agent is given to no
\* agent as a sub-agent: the tree the runner starts on
HandoffTree == [main_agent |-> <<>>]

\* what one iteration of the client's range over r.Run receives
HandoffTargets == {"", "support_agent", "billing_agent"}
HandoffEvents ==
    {[err |-> TRUE, transfer |-> "", text |-> FALSE]}
    \cup {[err |-> FALSE, transfer |-> t, text |-> x] :
              t \in HandoffTargets, x \in BOOLEAN}

\* main reaches its for loop with the runner built on main_agent
HandoffStart ==
    /\ prog = "handoff" /\ pc = "start"
    /\ pc' = "running"
    /\ currentAgent' = "main_agent"
    /\ transferTo' = ""
    /\ nRuns' = 1
    /\ UNCHANGED <<exampleVars, storyVars, hookVars, clientVars, prog, cbResponse, instruction>>

\* one iteration of the inner loop: an error is logged and skipped; a
\* non-empty TransferToAgent is remembered; a response with parts is printed
HandoffEvent(ev) ==
    /\ prog = "handoff" /\ pc = "running"
    /\ nEvents < MaxEvents
    /\ nEvents' = nEvents + 1
    /\ IF ev.err
       THEN UNCHANGED <<transferTo, printed>>
       ELSE /\ transferTo' = IF ev.transfer # "" THEN ev.transfer ELSE transferTo
            /\ printed' = IF ev.text
                          THEN Append(printed, [kind |-> "response", iter |-> nRuns])
                          ELSE printed
    /\ UNCHANGED <<exampleVars, storyVars, hookVars, prog, pc, funcCallID, captured, willContinue,
                   responses, sentLog, toolActions, toolResult, lastEvent,
                   cbResponse, loopIteration, currentAgent, nRuns, instruction>>

\* the stream ends: for "support_agent" the client builds a new runner on
\* supportAgent and runs again; for anything else it leaves the loop
HandoffRunEnd(runnerOk) ==
    /\ prog = "handoff" /\ pc = "running"
    /\ IF transferTo = "support_agent"
       THEN /\ nRuns < MaxRuns
            /\ currentAgent' = "support_agent"
            /\ IF runnerOk
               THEN /\ pc' = "running"
                    /\ nRuns' = nRuns + 1
                    /\ transferTo' = ""
                    /\ nEvents' = 0
                    /\ printed' = Append(printed, [kind |-> "transferring", iter |-> nRuns])
               ELSE /\ pc' = "fatal"
                    /\ printed' = Append(printed, [kind |-> "transferring", iter |-> nRuns])
                    /\ UNCHANGED <<nRuns, transferTo, nEvents>>
       ELSE /\ pc' = "done"
            /\ UNCHANGED <<currentAgent, nRuns, transferTo, nEvents, printed>>
    /\ UNCHANGED <<exampleVars, storyVars, hookVars, prog, funcCallID, captured, willContinue,
                   responses, sentLog, toolActions, toolResult, lastEvent,
                   cbResponse, loopIteration, instruction>>

\* ------------------------------------------------- reading the output key back
\* what callAgent finds under outputKey after the run: nothing, a string
\* holding a JSON object, another string, or a value that is not a string
StoredOutputs == {"absent", "json object", "text", "not a string"}

\* what callAgent prints for it
storedOutputPrinted(stored) ==
    IF stored = "absent" THEN <<>>
    ELSE <<[kind |-> "state header", iter |-> 0],
           [kind |-> (IF stored = "json object" THEN "indented json"
                      ELSE IF stored = "text" THEN "stored string"
                      ELSE "stored value"), iter |-> 0],
           [kind |-> "rule", iter |-> 0]>>

ReadOutputKey(outputKey, stored) ==
    /\ prog = "callagent" /\ pc = "start"
    /\ printed' = IF outputKey # "" THEN storedOutputPrinted(stored) ELSE printed
    /\ pc' = "done"
    /\ UNCHANGED <<exampleVars, runVars, storyVars, hookVars, prog, funcCallID, captured, nEvents,
                   willContinue, responses, sentLog, toolActions, toolResult,
                   lastEvent, cbResponse, loopIteration>>

\* ------------------------------------------------- session management example
\* main creates a session, prints its properties and deletes it; a failing
\* Create or Delete ends the program (log.Fatalf)
SessionCreate(ok) ==
    /\ prog = "session" /\ pc = "start"
    /\ pc' = IF ok THEN "created" ELSE "fatal"
    /\ printed' = IF ok THEN Append(printed, [kind |-> "properties", iter |-> 0])
                  ELSE printed
    /\ UNCHANGED <<exampleVars, runVars, storyVars, hookVars, prog, funcCallID, captured, nEvents,
                   willContinue, responses, sentLog, toolActions, toolResult,
                   lastEvent, cbResponse, loopIteration>>

SessionDelete(ok) ==
    /\ prog = "session" /\ pc = "created"
    /\ pc' = IF ok THEN "deleted" ELSE "fatal"
    /\ printed' = IF ok THEN Append(printed, [kind |-> "deleted", iter |-> 0])
                  ELSE printed
    /\ UNCHANGED <<exampleVars, runVars, storyVars, hookVars, prog, funcCallID, captured, nEvents,
                   willContinue, responses, sentLog, toolActions, toolResult,
                   lastEvent, cbResponse, loopIteration>>

\* ------------------------------------------------- remote agent construction
\* newPrimeAgent wraps an error of remoteagent.New; newRootAgent returns the
\* error of llmagent.New as it is
PrimeAgentError == "failed to create remote prime agent"
RootAgentError == "llmagent.New failed"

NewPrimeAgent(ok) ==
    /\ prog = "remote" /\ pc = "start"
    /\ pc' = IF ok THEN "prime" ELSE "error"
    /\ cbError' = IF ok THEN "" ELSE PrimeAgentError
    /\ UNCHANGED <<exampleVars, runVars, storyVars, clientVars, prog, cbResponse, state, stateSets,
                   artifactStore, request, invoked, toolArgs, toolOut>>

NewRootAgent(ok) ==
    /\ prog = "remote" /\ pc = "prime"
    /\ pc' = IF ok THEN "root" ELSE "error"
    /\ cbError' = IF ok THEN "" ELSE RootAgentError
    /\ UNCHANGED <<exampleVars, runVars, storyVars, clientVars, prog, cbResponse, state, stateSets,
                   artifactStore, request, invoked, toolArgs, toolOut>>

\* ------------------------------------------------- instruction providers
StaticInstruction ==
    "This is an instruction with {{literal_braces}} that will not be replaced."
DynamicTemplate == "This is a {adjective} instruction with {{literal_braces}}."

\* what instructionutil.InjectSessionState may return for the template
InjectResults ==
    {[text |-> "This is a dynamic instruction with {literal_braces}.", err |-> ""],
     [text |-> "This is a dynamic instruction with {{literal_braces}}.", err |-> ""],
     [text |-> DynamicTemplate, err |-> ""],
     [text |-> "", err |-> "inject failed"]}

\* staticInstructionProvider returns its string as it is
StaticInstructionProvider ==
    /\ prog = "instruction" /\ pc = "start"
    /\ instruction' = [text |-> StaticInstruction, err |-> ""]
    /\ pc' = "static"
    /\ UNCHANGED <<exampleVars, storyVars, hookVars, clientVars, prog, cbResponse, transferTo,
                   currentAgent, nRuns>>

\* dynamicInstructionProvider returns what InjectSessionState returns
DynamicInstructionProvider(res) ==
    /\ prog = "instruction" /\ pc \in {"start", "static"}
    /\ instruction' = res
    /\ pc' = "dynamic"
    /\ UNCHANGED <<exampleVars, storyVars, hookVars, clientVars, prog, cbResponse, transferTo,
                   currentAgent, nRuns>>

\* ------------------------------------------------- After-Agent callback reading state
\* myCallback prints what State().Get("temp:last_api_result") handed it, or
\* that it found nothing, and returns nil, nil
MyCallback(got) ==
    /\ prog = "statecb" /\ pc = "start"
    /\ printed' = Append(printed, [kind |-> (IF got.t = "absent"
                                             THEN "no temporary result"
                                             ELSE "found temporary result"),
                                   iter |-> 0])
    /\ pc' = "returned"
    /\ UNCHANGED <<exampleVars, runVars, storyVars, hookVars, prog, funcCallID,
                   captured, nEvents, willContinue, responses, sentLog, toolActions,
                   toolResult, lastEvent, cbResponse, loopIteration>>

\* ------------------------------------------------- example workflows and their state keys
\* one llmagent.Config: the keys its Instruction names in braces, its
\* OutputKey ("" when the field is not set) and whether it has the exit tool
LlmAgent(name, uses, outputKey, exit) ==
    [name |-> name, uses |-> uses, outputKey |-> outputKey, exit |-> exit]

\* the example workflows, by the name of their root agent
Workflows ==
  \* parallel/main.go: createResearcherAgent takes an outputKey and does not
  \* put it into the Config; SummaryAgent's instruction names the three keys
  [ResearchPipeline |->
    [stages |-> << { LlmAgent("ResearcherAgent-renewable energy", {}, "", FALSE),
                     LlmAgent("ResearcherAgent-electric vehicle technology", {}, "", FALSE),
                     LlmAgent("ResearcherAgent-carbon capture methods", {}, "", FALSE) },
                   { LlmAgent("SummaryAgent",
                              {"renewable_energy_summary", "ev_summary",
                               "carbon_capture_summary"}, "", FALSE) } >>,
     loopFrom |-> 0, maxIterations |-> 1, initialState |-> {}],

  \* part_005 (first program): three researchers with an OutputKey each, then
  \* SynthesisAgent
  ResearchAndSynthesisPipeline |->
    [stages |-> << { LlmAgent("RenewableEnergyResearcher", {},
                              "renewable_energy_result", FALSE),
                     LlmAgent("EVResearcher", {}, "ev_technology_result", FALSE),
                     LlmAgent("CarbonCaptureResearcher", {},
                              "carbon_capture_result", FALSE) },
                   { LlmAgent("SynthesisAgent",
                              {"renewable_energy_result", "ev_technology_result",
                               "carbon_capture_result"}, "", FALSE) } >>,
     loopFrom |-> 0, maxIterations |-> 1, initialState |-> {}],

  \* part_005 (second program): a loop of WriterAgent and CriticAgent, neither
  \* with an OutputKey
  RefinementLoop |->
    [stages |-> << { LlmAgent("WriterAgent", {"document", "feedback"}, "", FALSE) },
                   { LlmAgent("CriticAgent", {"document"}, "", TRUE) } >>,
     loopFrom |-> 1, maxIterations |-> 5, initialState |-> {}],

  \* loop/main.go: InitialWriterAgent, then a loop of CriticAgent and RefinerAgent
  IterativeWriterAgent |->
    [stages |-> << { LlmAgent("InitialWriterAgent", {}, "current_document", FALSE) },
                   { LlmAgent("CriticAgent", {"current_document"}, "criticism", FALSE) },
                   { LlmAgent("RefinerAgent", {"current_document", "criticism"},
                              "current_document", TRUE) } >>,
     loopFrom |-> 2, maxIterations |-> 5, initialState |-> {}] ]

\* every agent of the example workflows
WorkflowAgents == UNION {UNION Range(Workflows[w].stages) : w \in DOMAIN Workflows}

\* the agents whose turn the Run is at: the children of a parallel agent
\* together, the children of a sequential or loop agent one after the other
StageAgents == Workflows[flow.w].stages[flow.stage]

\* runAgent creates the session (the CreateRequest carries no State) and
\* starts r.Run on the root agent
WorkflowStart(w) ==
    /\ prog = "workflow" /\ pc = "start"
    /\ flow' = [w |-> w, stage |-> 1, iter |-> 1, started |-> {}, ended |-> {},
                escalated |-> FALSE]
    /\ committed' = Workflows[w].initialState
    /\ pc' = "running"
    /\ UNCHANGED <<prefStore, prefHeap, prefCalls, runVars, storyVars, hookVars, clientVars, prog,
                   cbResponse, turnLog>>

\* the turn of an agent starts: its instruction is filled in from the state
\* as it is now
AgentTurnStart(a) ==
    /\ prog = "workflow" /\ pc = "running"
    /\ a \in StageAgents
    /\ a.name \notin flow.started
    /\ turnLog' = Append(turnLog, [agent |-> a.name, missing |-> a.uses \ committed])
    /\ flow' = [flow EXCEPT !.started = @ \cup {a.name}]
    /\ UNCHANGED <<prefStore, prefHeap, prefCalls, runVars, storyVars, hookVars, clientVars, prog,
                   cbResponse, pc, committed>>

\* the turn of an agent ends: an agent with an OutputKey has its output
\* stored under the key; an agent with the exit tool may have called it
AgentTurnEnd(a, escalate) ==
    /\ prog = "workflow" /\ pc = "running"
    /\ a \in StageAgents
    /\ a.name \in flow.started \ flow.ended
    /\ escalate => a.exit
    /\ committed' = IF a.outputKey # "" THEN committed \cup {a.outputKey}
                    ELSE committed
    /\ flow' = [flow EXCEPT !.ended = @ \cup {a.name},
                            !.escalated = @ \/ escalate]
    /\ UNCHANGED <<prefStore, prefHeap, prefCalls, runVars, storyVars, hookVars, clientVars, prog,
                   cbResponse, pc, turnLog>>

\* every agent of the stage has ended: the next sub-agent is started, the
\* loop goes round again, or the Run is over
StageEnd ==
    /\ prog = "workflow" /\ pc = "running"
    /\ flow.ended = {a.name : a \in StageAgents}
    /\ LET cfg == Workflows[flow.w]
       IN IF flow.escalated
          THEN pc' = "done" /\ UNCHANGED flow
          ELSE IF flow.stage < Len(cfg.stages)
          THEN /\ flow' = [flow EXCEPT !.stage = @ + 1, !.started = {}, !.ended = {}]
               /\ UNCHANGED pc
          ELSE IF cfg.loopFrom > 0 /\ flow.iter < cfg.maxIterations
          THEN /\ flow' = [flow EXCEPT !.stage = cfg.loopFrom, !.iter = @ + 1,
                                       !.started = {}, !.ended = {}]
               /\ UNCHANGED pc
          ELSE pc' = "done" /\ UNCHANGED flow
    /\ UNCHANGED <<prefStore, prefHeap, prefCalls, runVars, storyVars, hookVars, clientVars, prog,
                   cbResponse, committed, turnLog>>

\* ------------------------------------------------- updateUserPreference tool
\* the session the calls run against: "user:preferences" is missing
\* ("absent"), holds a value that is no map[string]any ("other"), or holds an
\* (empty) map; a map is kept by identity, its index in prefHeap
PrefSessionStart(initial) ==
    /\ prog = "prefs" /\ pc = "start"
    /\ prefStore' = [t |-> initial, id |-> IF initial = "map" THEN 1 ELSE 0]
    /\ prefHeap' = IF initial = "map" THEN <<{}>> ELSE <<>>
    /\ pc' = "running"
    /\ UNCHANGED <<flow, committed, turnLog, runVars, storyVars, hookVars, clientVars, prog,
                   cbResponse, prefCalls>>

\* updateUserPreference, lines 21-30: the value under the key is read; a
\* missing key or a value that is no map gives a fresh map; a map is used as
\* it is handed out, the stored object itself or a copy of it
PrefGet(c, pref, value, aliased) ==
    /\ prog = "prefs" /\ pc = "running"
    /\ prefCalls[c].pc = "idle"
    /\ LET fresh == Len(prefHeap) + 1
           held == prefStore.t = "map" /\ aliased
       IN /\ prefHeap' = IF held THEN prefHeap
                         ELSE Append(prefHeap, IF prefStore.t = "map"
                                               THEN prefHeap[prefStore.id] ELSE {})
          /\ prefCalls' = [prefCalls EXCEPT ![c] =
                 [pc |-> "got", pref |-> pref, value |-> value,
                  obj |-> (IF held THEN prefStore.id ELSE fresh), status |-> ""]]
    /\ UNCHANGED <<flow, committed, turnLog, runVars, storyVars, hookVars, clientVars, prog,
                   cbResponse, pc, prefStore>>

\* line 32: the preference is written into the map the call holds (a set of
\* <<key, value>> pairs with one pair for a key); two calls
\* writing the same map object at once is a data race, which the Go runtime
\* may end with "fatal error: concurrent map writes"
PrefAssign(c, fatal) ==
    /\ prog = "prefs" /\ pc = "running"
    /\ prefCalls[c].pc = "got"
    /\ fatal => \E d \in 1..MaxCalls : /\ d # c
                                       /\ prefCalls[d].pc = "got"
                                       /\ prefCalls[d].obj = prefCalls[c].obj
    /\ IF fatal
       THEN pc' = "fatal" /\ UNCHANGED <<prefHeap, prefCalls>>
       ELSE /\ prefHeap' = [prefHeap EXCEPT ![prefCalls[c].obj] =
                               {e \in @ : e[1] # prefCalls[c].pref}
                                   \cup {<<prefCalls[c].pref, prefCalls[c].value>>}]
            /\ prefCalls' = [prefCalls EXCEPT ![c].pc = "assigned"]
            /\ UNCHANGED pc
    /\ UNCHANGED <<flow, committed, turnLog, runVars, storyVars, hookVars, clientVars, prog,
                   cbResponse, prefStore>>

\* lines 34-39: the map is stored under the key; a failing Set gives the
\* status "error", a Set that worked the status "success"
PrefSet(c, setOk) ==
    /\ prog = "prefs" /\ pc = "running"
    /\ prefCalls[c].pc = "assigned"
    /\ prefStore' = IF setOk THEN [t |-> "map", id |-> prefCalls[c].obj] ELSE prefStore
    /\ prefCalls' = [prefCalls EXCEPT ![c].pc = "done",
                                      ![c].status = IF setOk THEN "success"
                                                    ELSE "error"]
    /\ UNCHANGED <<flow, committed, turnLog, runVars, storyVars, hookVars, clientVars, prog,
                   cbResponse, pc, prefHeap>>

Init ==
    /\ prog \in Programs
    /\ pc = "start"
    /\ funcCallID = ""
    /\ captured = Unset
    /\ nEvents = 0
    /\ willContinue = FALSE
    /\ responses = <<>>
    /\ sentLog = <<>>
    /\ toolActions = NoActions
    /\ toolResult = NoResult
    /\ lastEvent = NoEvent
    /\ cbResponse = NilResponse
    /\ loopIteration = 0
    /\ printed = <<>>
    /\ state = [k \in StateKeys |-> Absent]
    /\ stateSets = <<>>
    /\ cbError = ""
    /\ artifactStore = {}
    /\ request = <<>>
    /\ invoked = <<>>
    /\ toolArgs = NoArgs
    /\ toolOut = NilMap
    /\ subRuns = <<>>
    /\ yielded = <<>>
    /\ currentStory = [t |-> "unread", i |-> 0, s |-> ""]
    /\ toneResult = [t |-> "unread", i |-> 0, s |-> ""]
    /\ transferTo = ""
    /\ currentAgent = ""
    /\ nRuns = 0
    /\ instruction = NoInstruction
    /\ flow = [w |-> "", stage |-> 0, iter |-> 0, started |-> {}, ended |-> {},
               escalated |-> FALSE]
    /\ committed = {}
    /\ turnLog = <<>>
    /\ prefStore = [t |-> "absent", id |-> 0]
    /\ prefHeap = <<>>
    /\ prefCalls = [c \in 1..MaxCalls |->
                       [pc |-> "idle", pref |-> "", value |-> "", obj |-> 0, status |-> ""]]

Next ==
    \/ MainStart
    \/ prog = "ticket" /\ \E ev \in Events : RunTurnEvent(ev)
    \/ Turn1Return
    \/ Turn2Return
    \/ Turn3Return
    \/ \E q \in Queries : CheckAndTransfer(q)
    \/ ExitLoop
    \/ \E got \in StatusValues : CheckerRun(got)
    \/ prog = "guardrail" /\ \E req \in Requests : GuardrailCall(req)
    \/ \E stored \in LoginValues, now \in Timestamps : BuildSystemEvent(stored, now)
    \/ prog = "writer" /\ \E ev \in PipelineEvents : PipelineEvent(ev)
    \/ PipelineFinished
    \/ prog = "artifacts" /\ \E req \in ArtifactRequests : ArtifactsModelCall(req)
    \/ \E got \in ReportValues, saveOk \in BOOLEAN : SaveReportCallback(got, saveOk)
    \/ \E listed \in ListOutcomes : ListUserFilesCallback(listed)
    \/ \E loadOk \in BOOLEAN : LoadArtifactsCallback(loadOk)
    \/ ConceptualSetup
    \/ prog = "safety" /\ \E req \in CallRequests : ValidateToolParams(req)
    \/ \E c \in Countries : GetCapitalCity(c)
    \/ \E n \in CalledTools, a \in {NoArgs} \cup {CountryArg(c) : c \in Countries} :
           OnBeforeTool(n, a)
    \/ \E n \in CalledTools, res \in ToolResults, err \in ToolErrors :
           OnAfterTool(n, res, err)
    \/ \E n \in AgentNames, got \in SkipValues : OnBeforeAgent(n, got)
    \/ \E setOk \in BOOLEAN : GetUserProfile(setOk)
    \/ \E got \in UserIDValues : GetUserOrders(got)
    \/ \E pref \in Preferences, v \in PreferenceValues, setOk \in BOOLEAN :
           SetUserPreference(pref, v, setOk)
    \/ \E got \in CountValues, setOk \in BOOLEAN : MyBeforeModelCb(got, setOk)
    \/ \E isCb \in BOOLEAN, got \in CountValues, ok1 \in BOOLEAN, ok2 \in BOOLEAN :
           UpdateActionCount(isCb, got, ok1, ok2)
    \/ StoryRun
    \/ \E err \in BOOLEAN, more \in BOOLEAN : SubAgentYield(err, more)
    \/ \E got \in StoryValues : Stage1End(got)
    \/ Stage2End
    \/ \E tone \in ToneValues : Stage3End(tone)
    \/ Stage4End
    \/ \E got \in QualityValues : StopCheckerRun(got)
    \/ HandoffStart
    \/ \E ev \in HandoffEvents : HandoffEvent(ev)
    \/ \E ok \in BOOLEAN : HandoffRunEnd(ok)
    \/ \E k \in {"", "last_greeting"}, stored \in StoredOutputs : ReadOutputKey(k, stored)
    \/ \E ok \in BOOLEAN : SessionCreate(ok)
    \/ \E ok \in BOOLEAN : SessionDelete(ok)
    \/ \E ok \in BOOLEAN : NewPrimeAgent(ok)
    \/ \E ok \in BOOLEAN : NewRootAgent(ok)
    \/ StaticInstructionProvider
    \/ \E res \in InjectResults : DynamicInstructionProvider(res)
    \/ \E got \in {Absent, StrVal("Success from previous step")} : MyCallback(got)
    \/ \E w \in DOMAIN Workflows : WorkflowStart(w)
    \/ \E a \in WorkflowAgents : AgentTurnStart(a)
    \/ \E a \in WorkflowAgents, escalate \in BOOLEAN : AgentTurnEnd(a, escalate)
    \/ StageEnd
    \/ \E initial \in {"absent", "other", "map"} : PrefSessionStart(initial)
    \/ \E c \in 1..MaxCalls, pref \in {"theme", "language"}, value \in {"dark", "en"},
          aliased \in BOOLEAN : PrefGet(c, pref, value, aliased)
    \/ \E c \in 1..MaxCalls, fatal \in BOOLEAN : PrefAssign(c, fatal)
    \/ \E c \in 1..MaxCalls, setOk \in BOOLEAN : PrefSet(c, setOk)

Spec == Init /\ [][Next]_vars

\* ------------------------------------------------- claims
\* C30: StoryFlowAgent.Run ranges over its sub-agents in the fixed order story
\* generator, critic/reviser loop, post-processing, (optional) story generator
\* again; it starts a stage only after the previous stage's stream has been
\* exhausted, and the events it forwards are in stage order.
C30_StagesInOrderAndDrained ==
    prog = "story" =>
        /\ Len(subRuns) <= 4
        /\ \A i \in 1..Len(subRuns) :
               /\ subRuns[i].stage = i
               /\ subRuns[i].agent =
                      <<"storyGenerator", "revisionLoopAgent",
                        "postProcessorAgent", "storyGenerator">>[i]
        /\ \A i \in 1..(Len(subRuns) - 1) : subRuns[i].status = "ended"
        /\ \A i \in 1..Len(yielded) : yielded[i].stage <= Len(subRuns)
        /\ \A i, j \in 1..Len(yielded) : i < j => yielded[i].stage <= yielded[j].stage

\* C30 witness: a Run that went through all four stages and forwarded an
\* event of each
C30_AllStagesForwarded ==
    /\ prog = "story" /\ pc = "done"
    /\ Len(subRuns) = 4
    /\ \A k \in 1..4 : Forwarded(k) > 0

\* C23: whenever the Run of the story-flow agent has stopped because of a
\* failure (a sub-agent's error, or no story generated by stage 1), the last
\* thing its consumer received is an error.
C23_FailureEndsWithError ==
    (prog = "story" /\ pc \in {"error", "no_story"}) =>
        /\ Len(yielded) > 0
        /\ yielded[Len(yielded)].kind = "error"

\* C31: StoryFlowAgent.Run starts the revision loop, the post-processing and
\* the read of the tone only after it has read a value under "current_story"
\* that is there and is not the empty string; when the value is missing or
\* is the empty string the Run has ended with the story generator's stream as
\* its only sub-agent run.
C31_LaterStagesNeedStory ==
    prog = "story" =>
        /\ (Len(subRuns) >= 2 \/ toneResult.t # "unread") =>
               /\ currentStory.t \notin {"unread", "absent"}
               /\ ~(currentStory.t = "string" /\ currentStory.s = "")
        /\ (currentStory.t = "absent"
               \/ (currentStory.t = "string" /\ currentStory.s = "")) =>
               /\ pc = "no_story"
               /\ Len(subRuns) = 1
               /\ subRuns[1].status = "ended"
               /\ \A i \in 1..Len(yielded) : yielded[i].stage = 1
C31_StoryLetsStagesRun ==
    /\ prog = "story"
    /\ currentStory = StrVal("a story")
    /\ Len(subRuns) >= 3
    /\ toneResult.t # "unread"

\* C32: when a sub-agent of StoryFlowAgent delivers an error, the Run passes
\* exactly one error to yield, wrapped with the name of the failing stage, and
\* returns: the error is the last thing yielded and the failing stage's stream
\* is the last one started.
C32_OneWrappedErrorThenStop ==
    prog = "story" =>
        LET errs == {i \in 1..Len(yielded) : yielded[i].kind = "error"}
        IN /\ Cardinality(errs) <= 1
           /\ (pc = "error") <=> (errs # {})
           /\ \A i \in errs :
                  /\ i = Len(yielded)
                  /\ yielded[i].stage = Len(subRuns)
                  /\ subRuns[Len(subRuns)].status = "abandoned"
                  /\ yielded[i].text =
                         CASE yielded[i].stage = 1 -> "story generator failed"
                           [] yielded[i].stage = 2 -> "loop agent failed"
                           [] yielded[i].stage = 3 -> "sequential agent failed"
                           [] OTHER -> "story regeneration failed"
C32_ErrorInLoopStage ==
    /\ prog = "story" /\ pc = "error"
    /\ Len(yielded) = 2
    /\ yielded[1].kind = "event"
    /\ yielded[2].kind = "error" /\ yielded[2].stage = 2

\* C33: once the consumer's yield has answered false, StoryFlowAgent.Run has
\* returned: that call of yield is the last one, and the stream it came from
\* is the last sub-agent stream started and has been abandoned.
C33_NothingAfterYieldFalse ==
    prog = "story" =>
        \A i \in 1..Len(yielded) :
            ~yielded[i].more =>
                /\ i = Len(yielded)
                /\ pc \in {"stopped", "error"}
                /\ yielded[i].stage = Len(subRuns)
                /\ subRuns[Len(subRuns)].status = "abandoned"
C33_StoppedInLoopStage ==
    /\ prog = "story" /\ pc = "stopped"
    /\ Len(yielded) = 2
    /\ yielded[2].stage = 2 /\ ~yielded[2].more

\* C34: StoryFlowAgent runs the story generator at most twice in one Run, and
\* the second time exactly when the value it read under "tone_check_result",
\* after the post-processing stream was exhausted, is the string "negative".
C34_RegenerateOnlyForNegative ==
    prog = "story" =>
        LET gen == {i \in 1..Len(subRuns) : subRuns[i].agent = "storyGenerator"}
        IN /\ Cardinality(gen) <= 2
           /\ (Cardinality(gen) = 2) <=>
                  (toneResult.t = "string" /\ toneResult.s = "negative")
           /\ toneResult.t # "unread" =>
                  /\ Len(subRuns) >= 3
                  /\ subRuns[3].agent = "postProcessorAgent"
                  /\ subRuns[3].status = "ended"
C34_RegeneratedOnce ==
    /\ prog = "story" /\ pc = "done"
    /\ toneResult = StrVal("negative")
    /\ Cardinality({i \in 1..Len(subRuns) : subRuns[i].agent = "storyGenerator"}) = 2
    /\ Forwarded(4) > 0

\* C38: in every example workflow, when the turn of an agent starts, every
\* state key its instruction names in braces is already in the session
\* state, put there by the OutputKey of an agent that ran before or by the
\* initial state of the session.
C38_PlaceholdersCommitted ==
    prog = "workflow" =>
        \A i \in 1..Len(turnLog) : turnLog[i].missing = {}

\* C40: updateUserPreference loses no update: when all calls have returned
\* the status "success", also calls that ran at the same time, the map under
\* "user:preferences" holds every preference a call has set.
C40_NoLostUpdate ==
    (prog = "prefs" /\ pc = "running"
        /\ \A c \in 1..MaxCalls : prefCalls[c].status = "success") =>
        /\ prefStore.t = "map"
        /\ \A c \in 1..MaxCalls :
               \E e \in prefHeap[prefStore.id] : e[1] = prefCalls[c].pref
====
